---- MODULE Spec2Model ----
(***************************************************************************)
(* Model of the accounting core of collective-accounting / lausa:          *)
(* Money (amounts in whole cents), Account / PositiveAccount, LedgerState, *)
(* the Operation variants and Ledger.apply.                                *)
(*                                                                         *)
(* Account objects live on a heap and a LedgerState maps names to          *)
(* references: Ledger.apply works on copy(self.state), a shallow copy of a *)
(* dict, so the Account objects are shared between the copy and every      *)
(* earlier record.                                                         *)
(***************************************************************************)
EXTENDS Integers, Sequences, FiniteSets, TLC

VARIABLES records, heap, lastOp, lastErr, calls,
          state, call, prevView, refused,
          money, by, parts,
          file, sessions, edits, saves

vars == <<records, heap, lastOp, lastErr, calls,
          state, call, prevView, refused,
          money, by, parts,
          file, sessions, edits, saves>>

ledgerVars == <<records, lastOp>>
stateVars == <<state, call, prevView, refused>>
moneyVars == <<money, by, parts>>
fileVars == <<file, sessions, edits, saves>>

\* ------------------------------------------------------------ bounds

MaxCalls == 3
MaxAmount == 1
MaxStateCalls == 4
MaxMoney == 30
MaxParts == 5
MaxAccounts == 3
MaxStart == 1
MaxGroup == 2
MaxExponent == 46
MaxCents == 2
MaxEdits == 3
MaxCommands == 3

Names == {"a", "b", "POT"}
Amounts == (0 - MaxAmount)..MaxAmount

NoError == "ok"

\* ------------------------------------------------------------ Money

\* The quotient truncated downwards instead of rounded.
Money_truediv_floor(m, n) == m \div n

\* Decimal.quantize(Decimal("0.01")) of the quotient of a whole number of
\* cents by a positive integer, under the default context (ROUND_HALF_EVEN).
Money_truediv(m, n) ==
    LET q == m \div n
        r == m % n
    IN  IF 2 * r < n THEN q
        ELSE IF 2 * r > n THEN q + 1
        ELSE IF q % 2 = 0 THEN q ELSE q + 1

Repeat(x, n) == [i \in 1..n |-> x]

\* divide_with_no_rest handing out the rounded quotient only.
divide_with_no_rest_dropping_remainder(m, n) ==
    Repeat(Money_truediv(m, n), n)

divide_with_no_rest(m, n) ==
    LET quantized_result == Money_truediv(m, n)
        remainder == m - quantized_result * n
    IN  <<quantized_result + remainder>> \o Repeat(quantized_result, n - 1)

\* Decimal division by zero: the exception raised by self / by when by = 0.
DivisionError(m) ==
    IF m = 0 THEN "decimal.InvalidOperation" ELSE "decimal.DivisionByZero"

\* ------------------------------------------------------------ Account

Account == [kind |-> "Account", balance |-> 0, diff |-> 0]
PositiveAccount == [kind |-> "PositiveAccount", balance |-> 0, diff |-> 0]

is_settled(account) == account.diff = 0

Account_change_diff(account, amount) ==
    [account EXCEPT !.diff = @ + amount]

Account_change_balance(account, amount) ==
    [account EXCEPT !.balance = @ + amount]

\* A PositiveAccount that also refuses to reach a balance of exactly zero.
PositiveAccount_refuses_at_zero(account, amount) ==
    (0 - amount) >= account.balance

\* A PositiveAccount that never refuses a balance change.
PositiveAccount_refuses_never(account, amount) == FALSE

\* TRUE when PositiveAccount.change_balance raises.
PositiveAccount_refuses(account, amount) ==
    (0 - amount) > account.balance

\* ------------------------------------------------------------ LedgerState
\* A LedgerState is a dict: a sequence of [name, ref] entries in insertion
\* order, ref an index into the heap. A world w = [state, heap, err] is a
\* LedgerState together with the heap and the exception raised so far
\* (NoError when none): every primitive is skipped once an exception is set.

World(s, h) == [state |-> s, heap |-> h, err |-> NoError]
Raise(w, e) == [w EXCEPT !.err = e]

Keys(s) == [i \in DOMAIN s |-> s[i].name]
Contains(s, name) == \E i \in DOMAIN s : s[i].name = name
Index(s, name) == CHOOSE i \in DOMAIN s : s[i].name = name
Ref(s, name) == s[Index(s, name)].ref
GetItem(w, name) == w.heap[Ref(w.state, name)]

\* self[name] = account, account a newly constructed object
SetItem(w, name, account) ==
    LET ref == Len(w.heap) + 1
        entry == [name |-> name, ref |-> ref]
    IN  [w EXCEPT !.heap = Append(@, account),
                  !.state = IF Contains(@, name)
                            THEN [@ EXCEPT ![Index(@, name)] = entry]
                            ELSE Append(@, entry)]

\* del self[name]
DelItem(w, name) ==
    LET i == Index(w.state, name)
    IN  [w EXCEPT !.state = SubSeq(@, 1, i - 1) \o SubSeq(@, i + 1, Len(@))]

\* Names that are not str objects (the integer 12 of the tests).
NonStringNames == {"<int 12>"}
isinstance_str(name) == name \notin NonStringNames

_validate_name(w, name) ==
    IF w.err # NoError THEN w
    ELSE IF ~isinstance_str(name) THEN Raise(w, "TypeError: name is not a string")
    ELSE IF name = "" THEN Raise(w, "ValueError: name string is empty")
    ELSE w

\* add_account without the test for an existing name.
add_account_overwrite(w, name) ==
    LET v == _validate_name(w, name)
    IN  IF v.err # NoError THEN v ELSE SetItem(v, name, Account)

add_account(w, name) ==
    LET v == _validate_name(w, name)
    IN  IF v.err # NoError THEN v
        ELSE IF Contains(v.state, name)
             THEN Raise(v, "RuntimeError: account already exists")
        ELSE SetItem(v, name, Account)

\* Removal without the is_settled test.
remove_account_unsettled(w, name) ==
    IF w.err # NoError THEN w
    ELSE IF ~Contains(w.state, name)
         THEN Raise(w, "RuntimeError: account does not exists")
    ELSE DelItem(w, name)

remove_account(w, name) ==
    IF w.err # NoError THEN w
    ELSE IF ~Contains(w.state, name)
         THEN Raise(w, "RuntimeError: account does not exists")
    ELSE IF ~is_settled(GetItem(w, name))
         THEN Raise(w, "RuntimeError: account cannot be removed if not settled")
    ELSE DelItem(w, name)

\* The pot created as a plain Account.
add_pot_plain(w) ==
    IF w.err # NoError THEN w
    ELSE SetItem(w, "POT", Account)

add_pot(w) ==
    IF w.err # NoError THEN w
    ELSE SetItem(w, "POT", PositiveAccount)

has_pot(s) == Contains(s, "POT")

change_balance(w, name, amount) ==
    IF w.err # NoError THEN w
    ELSE IF ~Contains(w.state, name)
         THEN Raise(w, "RuntimeError: account does not exists")
    ELSE LET account == GetItem(w, name)
         IN  IF account.kind = "PositiveAccount"
                /\ PositiveAccount_refuses(account, amount)
             THEN Raise(w, "RuntimeError: account balance cannot be negative")
             ELSE [w EXCEPT !.heap[Ref(w.state, name)] =
                                Account_change_balance(@, amount)]

\* change_diff writing the amount to the balance as well.
change_diff_and_balance(w, name, amount) ==
    IF w.err # NoError THEN w
    ELSE IF ~Contains(w.state, name)
         THEN Raise(w, "RuntimeError: account does not exists")
    ELSE [w EXCEPT !.heap[Ref(w.state, name)] =
                       Account_change_balance(Account_change_diff(@, amount),
                                              amount)]

change_diff(w, name, amount) ==
    IF w.err # NoError THEN w
    ELSE IF ~Contains(w.state, name)
         THEN Raise(w, "RuntimeError: account does not exists")
    ELSE [w EXCEPT !.heap[Ref(w.state, name)] = Account_change_diff(@, amount)]

RECURSIVE SumSeq(_)
SumSeq(s) == IF s = <<>> THEN 0 ELSE Head(s) + SumSeq(Tail(s))

SumDiff(s, h) == SumSeq([i \in DOMAIN s |-> h[s[i].ref].diff])

\* No equilibrium test at all.
check_equilibrium_unchecked(w) == w

check_equilibrium(w) ==
    IF w.err # NoError THEN w
    ELSE IF SumDiff(w.state, w.heap) # 0
         THEN Raise(w, "RuntimeError: accounts not equilibrated")
    ELSE w

\* funcy.lremove("POT", names): a string predicate is a regular expression
\* searched in each name, so every name containing POT is removed.
MatchesPOT(name) == name \in {"POT", "SPOT"}

RECURSIVE lremove_POT(_)
lremove_POT(names) ==
    IF names = <<>> THEN <<>>
    ELSE IF MatchesPOT(Head(names)) THEN lremove_POT(Tail(names))
    ELSE <<Head(names)>> \o lremove_POT(Tail(names))

\* for name, change in zip(names, shares): self.change_diff(name, sign * change)
RECURSIVE change_diffs(_, _, _, _)
change_diffs(w, names, shares, sign) ==
    IF names = <<>> \/ shares = <<>> \/ w.err # NoError THEN w
    ELSE change_diffs(change_diff(w, Head(names), sign * Head(shares)),
                      Tail(names), Tail(shares), sign)

None == <<"None">>

\* one loop of create_debt: the shares are computed before the loop starts
debt_loop(w, amount, names, sign) ==
    IF w.err # NoError THEN w
    ELSE IF Len(names) = 0 THEN Raise(w, DivisionError(amount))
    ELSE change_diffs(w, names, divide_with_no_rest(amount, Len(names)), sign)

create_debt(w, amount, creditors, debitors) ==
    LET all == lremove_POT(Keys(w.state))
        cs == IF creditors = None THEN all ELSE creditors
        ds == IF debitors = None THEN all ELSE debitors
    IN  IF w.err # NoError THEN w
        ELSE debt_loop(debt_loop(w, amount, cs, 1), amount, ds, 0 - 1)

\* internal_transfer moving the diffs the same way as the balances.
internal_transfer_same_way(w, amount, sender, receiver) ==
    change_diff(
        change_diff(
            change_balance(
                change_balance(w, sender, 0 - amount),
                receiver, amount),
            sender, 0 - amount),
        receiver, amount)

internal_transfer(w, amount, sender, receiver) ==
    change_diff(
        change_diff(
            change_balance(
                change_balance(w, sender, 0 - amount),
                receiver, amount),
            sender, amount),
        receiver, 0 - amount)

\* ------------------------------------------------------------ Operations

AddAccount(name) == [kind |-> "AddAccount", name |-> name]
RemoveAccount(name) == [kind |-> "RemoveAccount", name |-> name]
AddPot == [kind |-> "AddPot"]
Debt(amount, creditor, debitor) ==
    [kind |-> "Debt", amount |-> amount, creditor |-> creditor,
     debitor |-> debitor]
TransferDebt(amount, old_debitor, new_debitor) ==
    [kind |-> "TransferDebt", amount |-> amount, old_debitor |-> old_debitor,
     new_debitor |-> new_debitor]
RequestContribution(amount) == [kind |-> "RequestContribution", amount |-> amount]
SharedExpense(amount, payer) ==
    [kind |-> "SharedExpense", amount |-> amount, payer |-> payer]
Transfer(amount, sender, receiver) ==
    [kind |-> "Transfer", amount |-> amount, sender |-> sender,
     receiver |-> receiver]
Reimburse(amount, receiver) ==
    [kind |-> "Reimburse", amount |-> amount, receiver |-> receiver]
PaysContribution(amount, sender) ==
    [kind |-> "PaysContribution", amount |-> amount, sender |-> sender]

\* AddAccount without the reserved-name test.
AddAccount_apply_to_unreserved(op, w) == add_account(w, op.name)

AddAccount_apply_to(op, w) ==
    IF op.name = "POT"
    THEN Raise(w, "ValueError: 'POT' is a reserved account name")
    ELSE add_account(w, op.name)

RemoveAccount_apply_to(op, w) == remove_account(w, op.name)

AddPot_apply_to(op, w) ==
    IF has_pot(w.state) THEN Raise(w, "RuntimeError: Ledger already has a pot")
    ELSE add_pot(w)

\* Debt settled on the spot: the debitor pays the creditor.
Debt_apply_to_paying(op, w) ==
    internal_transfer(w, op.amount, op.debitor, op.creditor)

Debt_apply_to(op, w) ==
    create_debt(w, op.amount, <<op.creditor>>, <<op.debitor>>)

\* TransferDebt crediting the new debitor and debiting the old one.
TransferDebt_apply_to_reversed(op, w) ==
    create_debt(w, op.amount, <<op.new_debitor>>, <<op.old_debitor>>)

TransferDebt_apply_to(op, w) ==
    create_debt(w, op.amount, <<op.old_debitor>>, <<op.new_debitor>>)

RequestContribution_apply_to(op, w) ==
    IF ~has_pot(w.state)
    THEN Raise(w, "RuntimeError: RequestContribution only applies to a ledger with a pot")
    ELSE create_debt(w, op.amount * (Len(w.state) - 1), <<"POT">>, None)

SharedExpense_apply_to(op, w) ==
    LET paid == change_balance(w, op.payer, 0 - op.amount)
    IN  IF has_pot(paid.state)
        THEN create_debt(paid, op.amount, <<op.payer>>, <<"POT">>)
        ELSE create_debt(paid, op.amount, <<op.payer>>, None)

Transfer_apply_to(op, w) ==
    internal_transfer(w, op.amount, op.sender, op.receiver)

\* Reimburse moving the money from the receiver to the pot.
Reimburse_apply_to_reversed(op, w) ==
    IF ~has_pot(w.state)
    THEN Raise(w, "RuntimeError: Reimburse only applies to a ledger with a pot")
    ELSE internal_transfer(w, op.amount, op.receiver, "POT")

Reimburse_apply_to(op, w) ==
    IF ~has_pot(w.state)
    THEN Raise(w, "RuntimeError: Reimburse only applies to a ledger with a pot")
    ELSE internal_transfer(w, op.amount, "POT", op.receiver)

\* PaysContribution without the has_pot test.
PaysContribution_apply_to_unchecked(op, w) ==
    internal_transfer(w, op.amount, op.sender, "POT")

PaysContribution_apply_to(op, w) ==
    IF ~has_pot(w.state)
    THEN Raise(w, "RuntimeError: PaysContribution only applies to a ledger with a pot")
    ELSE internal_transfer(w, op.amount, op.sender, "POT")

apply_to(op, w) ==
    CASE op.kind = "AddAccount" -> AddAccount_apply_to(op, w)
      [] op.kind = "RemoveAccount" -> RemoveAccount_apply_to(op, w)
      [] op.kind = "AddPot" -> AddPot_apply_to(op, w)
      [] op.kind = "Debt" -> Debt_apply_to(op, w)
      [] op.kind = "TransferDebt" -> TransferDebt_apply_to(op, w)
      [] op.kind = "RequestContribution" -> RequestContribution_apply_to(op, w)
      [] op.kind = "SharedExpense" -> SharedExpense_apply_to(op, w)
      [] op.kind = "Transfer" -> Transfer_apply_to(op, w)
      [] op.kind = "Reimburse" -> Reimburse_apply_to(op, w)
      [] op.kind = "PaysContribution" -> PaysContribution_apply_to(op, w)

\* ------------------------------------------------------------ Ledger
\* A ledger value is [records, heap]; a record is [operation, state].

LedgerRecord(operation, s) == [operation |-> operation, state |-> s]

Ledger_state(recs) == IF recs = <<>> THEN <<>> ELSE recs[Len(recs)].state

Ledger_operations(recs) == [i \in DOMAIN recs |-> recs[i].operation]

\* An apply that appends the record whether or not an exception was raised.
Ledger_apply_keeps_failed(recs, h, operation) ==
    LET new_state == Ledger_state(recs)
        w == check_equilibrium(apply_to(operation, World(new_state, h)))
    IN  [records |-> Append(recs, LedgerRecord(operation, w.state)),
         heap |-> w.heap, err |-> w.err]

\* Ledger.apply: the result world carries the exception, if any. The heap of
\* the result keeps every write made to an existing Account before the
\* exception; objects constructed by a refused call are unreachable and are
\* dropped.
Ledger_apply(recs, h, operation) ==
    LET new_state == Ledger_state(recs)
        w == check_equilibrium(apply_to(operation, World(new_state, h)))
    IN  IF w.err # NoError
        THEN [records |-> recs, heap |-> SubSeq(w.heap, 1, Len(h)), err |-> w.err]
        ELSE [records |-> Append(recs, LedgerRecord(operation, w.state)),
              heap |-> w.heap, err |-> NoError]

\* Ledger.load_from_file, from the operations read: apply each in order to a
\* fresh Ledger, the first exception aborts the load.
RECURSIVE replay(_, _)
replay(l, operations) ==
    IF operations = <<>> \/ l.err # NoError THEN l
    ELSE replay(Ledger_apply(l.records, l.heap, Head(operations)),
                Tail(operations))

load_from_operations(operations) ==
    replay([records |-> <<>>, heap |-> <<>>, err |-> NoError], operations)

\* ------------------------------------------------------------ views

\* The value of a LedgerState as dict equality sees it: name -> Account value.
View(s, h) == [n \in {s[i].name : i \in DOMAIN s} |-> h[Ref(s, n)]]

\* The same, keeping insertion order.
Items(s, h) == [i \in DOMAIN s |-> [name |-> s[i].name, account |-> h[s[i].ref]]]

\* A state with its own private copy of every account (a deep copy).
Detached(s, h) ==
    World([i \in DOMAIN s |-> [name |-> s[i].name, ref |-> i]],
          [i \in DOMAIN s |-> h[s[i].ref]])

\* ------------------------------------------------------------ Ledger actions

InitLedger ==
    /\ records = <<>>
    /\ heap = <<>>
    /\ lastOp = [kind |-> "None"]
    /\ lastErr = NoError
    /\ calls = 0

IdleState ==
    /\ state = <<>>
    /\ call = [kind |-> "None"]
    /\ prevView = <<>>
    /\ refused = {}

IdleMoney ==
    /\ money = 0
    /\ by = 1
    /\ parts = <<>>

Sessions == {1, 2}

IdleSession ==
    [pc |-> "idle", records |-> <<>>, heap |-> <<>>, log |-> <<>>,
     applied |-> <<>>, at |-> 0, seen |-> 0]

IdleFile ==
    /\ file = <<>>
    /\ sessions = [s \in Sessions |-> IdleSession]
    /\ edits = 0
    /\ saves = <<>>

Init == InitLedger /\ IdleState /\ IdleMoney /\ IdleFile

Apply(operation) ==
    /\ calls < MaxCalls
    /\ LET l == Ledger_apply(records, heap, operation)
       IN  /\ records' = l.records
           /\ heap' = l.heap
           /\ lastErr' = l.err
    /\ lastOp' = operation
    /\ calls' = calls + 1
    /\ UNCHANGED <<stateVars, moneyVars, fileVars>>

ApplyAddAccount == calls < MaxCalls /\ \E n \in Names : Apply(AddAccount(n))
ApplyRemoveAccount ==
    calls < MaxCalls /\ \E n \in Names : Apply(RemoveAccount(n))
ApplyAddPot == Apply(AddPot)
ApplyDebt ==
    /\ calls < MaxCalls
    /\ \E x \in Amounts, c \in Names, d \in Names : Apply(Debt(x, c, d))
ApplyTransferDebt ==
    /\ calls < MaxCalls
    /\ \E x \in Amounts, o \in Names, n \in Names : Apply(TransferDebt(x, o, n))
ApplyRequestContribution ==
    calls < MaxCalls /\ \E x \in Amounts : Apply(RequestContribution(x))
ApplySharedExpense ==
    /\ calls < MaxCalls
    /\ \E x \in Amounts, p \in Names : Apply(SharedExpense(x, p))
ApplyTransfer ==
    /\ calls < MaxCalls
    /\ \E x \in Amounts, s \in Names, r \in Names : Apply(Transfer(x, s, r))
ApplyReimburse ==
    calls < MaxCalls /\ \E x \in Amounts, r \in Names : Apply(Reimburse(x, r))
ApplyPaysContribution ==
    /\ calls < MaxCalls
    /\ \E x \in Amounts, s \in Names : Apply(PaysContribution(x, s))

Next ==
    \/ ApplyAddAccount
    \/ ApplyRemoveAccount
    \/ ApplyAddPot
    \/ ApplyDebt
    \/ ApplyTransferDebt
    \/ ApplyRequestContribution
    \/ ApplySharedExpense
    \/ ApplyTransfer
    \/ ApplyReimburse
    \/ ApplyPaysContribution

Spec == Init /\ [][Next]_vars

\* ------------------------------------------------------------ LedgerState actions
\* A single LedgerState object driven through its own methods, as the unit
\* tests drive it. A primitive that raises keeps the writes it made before
\* raising. References are renumbered after each call (no other state shares
\* the accounts here).

StateNames == Names \cup {""} \cup NonStringNames

\* The ledger_state fixture of the tests: accounts added to a new state.
ledger_state ==
    add_account(add_account(World(<<>>, <<>>), "a"), "b")

\* A new LedgerState, or the fixture.
InitState ==
    /\ \E w \in {World(<<>>, <<>>), ledger_state} :
           /\ state = w.state
           /\ heap = w.heap
    /\ call = [kind |-> "None"]
    /\ prevView = <<>>
    /\ refused = {}
    /\ lastErr = NoError
    /\ calls = 0
    /\ records = <<>>
    /\ lastOp = [kind |-> "None"]
    /\ IdleMoney
    /\ IdleFile

Call(c, w) ==
    /\ calls < MaxStateCalls
    /\ LET d == Detached(w.state, w.heap)
       IN  /\ state' = d.state
           /\ heap' = d.heap
    /\ lastErr' = w.err
    /\ call' = c
    /\ prevView' = Items(state, heap)
    /\ calls' = calls + 1
    /\ UNCHANGED <<ledgerVars, moneyVars, fileVars>>

StAddAccount ==
    /\ calls < MaxStateCalls
    /\ \E n \in StateNames :
           /\ Call([kind |-> "add_account", name |-> n],
                   add_account(World(state, heap), n))
           /\ UNCHANGED refused

StRemoveAccount ==
    /\ calls < MaxStateCalls
    /\ \E n \in Names :
           LET w == RemoveAccount_apply_to(RemoveAccount(n), World(state, heap))
           IN  /\ Call([kind |-> "remove_account", name |-> n], w)
               /\ refused' =
                      IF w.err = "RuntimeError: account cannot be removed if not settled"
                      THEN refused \cup {n} ELSE refused

StAddPot ==
    /\ Call([kind |-> "add_pot"], add_pot(World(state, heap)))
    /\ UNCHANGED refused

StChangeBalance ==
    /\ calls < MaxStateCalls
    /\ \E n \in Names, x \in Amounts :
           /\ Call([kind |-> "change_balance", name |-> n, amount |-> x],
                   change_balance(World(state, heap), n, x))
           /\ UNCHANGED refused

StChangeDiff ==
    /\ calls < MaxStateCalls
    /\ \E n \in Names, x \in Amounts :
           /\ Call([kind |-> "change_diff", name |-> n, amount |-> x],
                   change_diff(World(state, heap), n, x))
           /\ UNCHANGED refused

NextState ==
    \/ StAddAccount
    \/ StRemoveAccount
    \/ StAddPot
    \/ StChangeBalance
    \/ StChangeDiff

SpecState == InitState /\ [][NextState]_vars

\* ------------------------------------------------------------ Money actions

InitMoney ==
    /\ money \in (0 - MaxMoney)..MaxMoney
    /\ by \in 1..MaxParts
    /\ parts = <<>>
    /\ InitLedger
    /\ IdleState
    /\ IdleFile

Divide ==
    /\ parts = <<>>
    /\ parts' = divide_with_no_rest(money, by)
    /\ UNCHANGED <<money, by, ledgerVars, stateVars, fileVars, heap, lastErr,
                   calls>>

NextMoney == Divide

SpecMoney == InitMoney /\ [][NextMoney]_vars

\* ------------------------------------------------------------ single operations
\* One operation applied to one LedgerState, as the unit tests of the
\* operations do: the state is a fixture of up to MaxAccounts accounts in any
\* insertion order, each holding k cents it was not expected to hold (balance
\* k, diff -k, as the receiver of an internal transfer has), and the
\* operation's apply_to runs on it once.

OpNames == Names \cup {"SPOT"}

NameSeqs(n) ==
    {q \in UNION {[1..k -> OpNames] : k \in 0..n} :
        \A i, j \in DOMAIN q : i # j => q[i] # q[j]}

StartAccount(name, k) ==
    [kind |-> IF name = "POT" THEN "PositiveAccount" ELSE "Account",
     balance |-> k, diff |-> 0 - k]

Fixtures(n, top) ==
    UNION {{World([i \in DOMAIN q |-> [name |-> q[i], ref |-> i]],
                  [i \in DOMAIN q |-> StartAccount(q[i], ks[i])]) :
               ks \in [DOMAIN q -> 0..top]} :
           q \in NameSeqs(n)}

InitFixture(n, top) ==
    /\ \E w \in Fixtures(n, top) :
           /\ state = w.state
           /\ heap = w.heap
    /\ call = [kind |-> "None"]
    /\ prevView = <<>>
    /\ refused = {}
    /\ lastErr = NoError
    /\ calls = 0
    /\ records = <<>>
    /\ lastOp = [kind |-> "None"]
    /\ IdleMoney
    /\ IdleFile

InitOp == InitFixture(MaxAccounts, MaxStart)

Once(c, w) ==
    /\ calls = 0
    /\ LET d == Detached(w.state, w.heap)
       IN  /\ state' = d.state
           /\ heap' = d.heap
    /\ lastErr' = w.err
    /\ call' = c
    /\ prevView' = Items(state, heap)
    /\ calls' = 1
    /\ UNCHANGED <<ledgerVars, moneyVars, fileVars, refused>>

OpApply(operation) == Once(operation, apply_to(operation, World(state, heap)))

OpAddAccount == calls = 0 /\ \E n \in OpNames : OpApply(AddAccount(n))
OpRemoveAccount == calls = 0 /\ \E n \in OpNames : OpApply(RemoveAccount(n))
OpAddPot == OpApply(AddPot)
OpDebt ==
    /\ calls = 0
    /\ \E x \in Amounts, c \in OpNames, d \in OpNames : OpApply(Debt(x, c, d))
OpTransferDebt ==
    /\ calls = 0
    /\ \E x \in Amounts, o \in OpNames, n \in OpNames :
           OpApply(TransferDebt(x, o, n))
OpRequestContribution ==
    calls = 0 /\ \E x \in Amounts : OpApply(RequestContribution(x))
OpSharedExpense ==
    /\ calls = 0
    /\ \E x \in Amounts, p \in OpNames : OpApply(SharedExpense(x, p))
OpTransfer ==
    /\ calls = 0
    /\ \E x \in Amounts, s \in OpNames, r \in OpNames :
           OpApply(Transfer(x, s, r))
OpReimburse ==
    calls = 0 /\ \E x \in Amounts, r \in OpNames : OpApply(Reimburse(x, r))
OpPaysContribution ==
    /\ calls = 0
    /\ \E x \in Amounts, s \in OpNames : OpApply(PaysContribution(x, s))

NextOp ==
    \/ OpAddAccount
    \/ OpRemoveAccount
    \/ OpAddPot
    \/ OpDebt
    \/ OpTransferDebt
    \/ OpRequestContribution
    \/ OpSharedExpense
    \/ OpTransfer
    \/ OpReimburse
    \/ OpPaysContribution

SpecOp == InitOp /\ [][NextOp]_vars

\* ------------------------------------------------------------ create_debt
\* LedgerState.create_debt called once on a fixture of accounts at zero, the
\* groups being None or lists of up to MaxGroup distinct names.

Groups ==
    {None} \cup
    {g \in UNION {[1..k -> OpNames] : k \in 0..MaxGroup} :
        \A i, j \in DOMAIN g : i # j => g[i] # g[j]}

InitDebt == InitFixture(MaxAccounts, 0)

CreateDebt ==
    /\ calls = 0
    /\ \E x \in Amounts, cs \in Groups, ds \in Groups :
           Once([kind |-> "create_debt", amount |-> x, creditors |-> cs,
                 debitors |-> ds],
                create_debt(World(state, heap), x, cs, ds))

NextDebt == CreateDebt

SpecDebt == InitDebt /\ [][NextDebt]_vars

\* ------------------------------------------------------------ io
\* operation_as_dict and load_operation_from_dict. The values of a dict are
\* tagged with their Python type. Amounts here go beyond the integers of the
\* model checker, so a Money is held as a sign and a magnitude in cents
\* written in limbs of 10 bits, least significant limb first, and a float as
\* a sign, a mantissa of 53 bits and a shift: mantissa / 2^shift.

Radix == 1024

RECURSIVE Limbs(_)
Limbs(n) == IF n = 0 THEN <<>> ELSE <<n % Radix>> \o Limbs(n \div Radix)

RECURSIVE Trim(_)
Trim(b) ==
    IF b = <<>> \/ b[Len(b)] # 0 THEN b ELSE Trim(SubSeq(b, 1, Len(b) - 1))

\* the number of bits of b
LenBits(b) ==
    IF b = <<>> THEN 0
    ELSE 10 * (Len(b) - 1)
         + CHOOSE k \in 1..10 : 2^(k - 1) <= b[Len(b)] /\ b[Len(b)] < 2^k

RECURSIVE Inc(_)
Inc(b) ==
    IF b = <<>> THEN <<1>>
    ELSE IF Head(b) < Radix - 1 THEN <<Head(b) + 1>> \o Tail(b)
    ELSE <<0>> \o Inc(Tail(b))

\* b * k + carry, for k up to 2^20
RECURSIVE MulSmall(_, _, _)
MulSmall(b, k, carry) ==
    IF b = <<>> THEN Limbs(carry)
    ELSE LET d == Head(b) * k + carry
         IN  <<d % Radix>> \o MulSmall(Tail(b), k, d \div Radix)

\* long division of b by k from the most significant limb, r the running
\* remainder
RECURSIVE DivSmall(_, _, _)
DivSmall(b, k, r) ==
    IF b = <<>> THEN [q |-> <<>>, r |-> r]
    ELSE LET cur == Radix * r + b[Len(b)]
             rest == DivSmall(SubSeq(b, 1, Len(b) - 1), k, cur % k)
         IN  [q |-> rest.q \o <<cur \div k>>, r |-> rest.r]

\* b * 2^s
Shl(b, s) ==
    IF b = <<>> THEN <<>>
    ELSE [i \in 1..(s \div 10) |-> 0] \o MulSmall(b, 2^(s % 10), 0)

Str(s) == [type |-> "str", value |-> s]
Tuple == [type |-> "tuple", value |-> <<>>]
IntOf(n) ==
    [type |-> "int", neg |-> n < 0, mag |-> Limbs(IF n < 0 THEN 0 - n ELSE n)]
MoneyOf(neg, mag) == [type |-> "Money", neg |-> neg, mag |-> mag]
FloatOf(neg, mant, shift) ==
    [type |-> "float", neg |-> neg, mant |-> mant, shift |-> shift]

\* Money(cents / 100) for a small number of cents
MoneyOfCents(c) == MoneyOf(c < 0, Limbs(IF c < 0 THEN 0 - c ELSE c))

\* float(money): the double nearest to cents / 100, ties to even. The shift
\* is the one that gives the quotient 53 bits.
Money_float(m) ==
    IF m.mag = <<>> THEN FloatOf(m.neg, <<>>, 0)
    ELSE LET Quotient(shift) ==
                 LET d == DivSmall(Shl(m.mag, shift), 100, 0)
                     q == Trim(d.q)
                     up == 2 * d.r > 100 \/ (2 * d.r = 100 /\ q[1] % 2 = 1)
                 IN  [q |-> q, mant |-> IF up THEN Inc(q) ELSE q]
             near == Quotient(59 - LenBits(m.mag))
         IN  IF LenBits(near.q) = 53
             THEN FloatOf(m.neg, near.mant, 59 - LenBits(m.mag))
             ELSE FloatOf(m.neg, Quotient(60 - LenBits(m.mag)).mant,
                          60 - LenBits(m.mag))

\* Money(number) = Decimal(number).quantize(Decimal("0.01")): the exact
\* value of the float rounded to cents, ties to even.
Money_new(number) ==
    IF number.type = "int" THEN MoneyOf(number.neg, MulSmall(number.mag, 100, 0))
    ELSE LET scaled == MulSmall(number.mant, 100, 0)
             limbs == number.shift \div 10
             bits == number.shift % 10
             high == IF limbs >= Len(scaled) THEN <<>>
                     ELSE SubSeq(scaled, limbs + 1, Len(scaled))
             d == DivSmall(high, 2^bits, 0)
             whole == Trim(d.q)
             lowTop == IF limbs >= 1 /\ limbs <= Len(scaled)
                       THEN scaled[limbs] ELSE 0
             lowRest == \E i \in 1..(limbs - 1) :
                            i <= Len(scaled) /\ scaled[i] # 0
             above == IF bits >= 1
                      THEN d.r > 2^(bits - 1)
                           \/ (d.r = 2^(bits - 1) /\ (lowTop # 0 \/ lowRest))
                      ELSE lowTop > Radix \div 2
                           \/ (lowTop = Radix \div 2 /\ lowRest)
             tie == IF bits >= 1
                    THEN d.r = 2^(bits - 1) /\ lowTop = 0 /\ ~lowRest
                    ELSE lowTop = Radix \div 2 /\ ~lowRest
             up == above \/ (tie /\ whole # <<>> /\ whole[1] % 2 = 1)
         IN  MoneyOf(number.neg, IF up THEN Inc(whole) ELSE whole)

money_to_float(obj) == IF obj.type = "Money" THEN Money_float(obj) ELSE obj

number_to_money(obj) ==
    IF obj.type \in {"float", "int"} THEN Money_new(obj) ELSE obj

operation_as_dict(operation) ==
    LET op_as_dict ==
            [k \in {"operation"} \cup (DOMAIN operation \ {"kind"}) |->
                IF k = "operation" THEN Str(operation.kind) ELSE operation[k]]
    IN  [k \in DOMAIN op_as_dict |-> money_to_float(op_as_dict[k])]

load_operation_from_dict(op_as_dict) ==
    LET classname == op_as_dict["operation"].value
        dict_transformed ==
            [k \in DOMAIN op_as_dict \ {"operation"} |->
                number_to_money(op_as_dict[k])]
    IN  [k \in {"kind"} \cup DOMAIN dict_transformed |->
            IF k = "kind" THEN classname ELSE dict_transformed[k]]

\* Decimal.__eq__ on two Money values, == on anything else
Value_eq(x, y) ==
    IF x.type = "Money" /\ y.type = "Money"
    THEN x.mag = y.mag /\ (x.mag = <<>> \/ x.neg = y.neg)
    ELSE x = y

\* the __eq__ that dataclass generates: same class, equal fields
Operation_eq(x, y) ==
    /\ x.kind = y.kind
    /\ DOMAIN x = DOMAIN y
    /\ \A k \in DOMAIN x \ {"kind"} : Value_eq(x[k], y[k])

IoNames == {"a", "b"}
IoSubjects == {"potatoes"}

\* amounts of 2^e euros and a few cents, e up to MaxExponent, of both signs
IoAmounts ==
    {MoneyOf(neg, mag) :
        neg \in BOOLEAN,
        mag \in {Limbs(c) : c \in 0..MaxCents} \cup
                {Trim(MulSmall(Shl(<<1>>, e), 100, c)) :
                     e \in {0, 10, 20, 30, 40, MaxExponent - 1, MaxExponent},
                     c \in 0..MaxCents}}

IoOperations ==
    {[kind |-> "AddAccount", name |-> Str(n)] : n \in IoNames}
    \cup {[kind |-> "RemoveAccount", name |-> Str(n)] : n \in IoNames}
    \cup {[kind |-> "AddPot"]}
    \cup {[kind |-> "Debt", amount |-> x, creditor |-> Str(c),
           debitor |-> Str(d), subject |-> Str(t)] :
              x \in IoAmounts, c \in IoNames, d \in IoNames, t \in IoSubjects}
    \cup {[kind |-> "TransferDebt", amount |-> x, old_debitor |-> Str(o),
           new_debitor |-> Str(n)] :
              x \in IoAmounts, o \in IoNames, n \in IoNames}
    \cup {[kind |-> "RequestContribution", amount |-> x] : x \in IoAmounts}
    \cup {[kind |-> "SharedExpense", amount |-> x, payer |-> Str(p),
           subject |-> Str(t), tags |-> Tuple] :
              x \in IoAmounts, p \in IoNames, t \in IoSubjects}
    \cup {[kind |-> "Transfer", amount |-> x, sender |-> Str(a),
           receiver |-> Str(b)] :
              x \in IoAmounts, a \in IoNames, b \in IoNames}
    \cup {[kind |-> "Reimburse", amount |-> x, receiver |-> Str(r)] :
              x \in IoAmounts, r \in IoNames}
    \cup {[kind |-> "PaysContribution", amount |-> x, sender |-> Str(a)] :
              x \in IoAmounts, a \in IoNames}

InitIo ==
    /\ call = [kind |-> "None"]
    /\ state = <<>>
    /\ heap = <<>>
    /\ prevView = <<>>
    /\ refused = {}
    /\ lastErr = NoError
    /\ calls = 0
    /\ records = <<>>
    /\ lastOp = [kind |-> "None"]
    /\ IdleMoney
    /\ IdleFile

IoDump ==
    /\ call.kind = "None"
    /\ \E operation \in IoOperations :
           call' = [kind |-> "operation_as_dict",
                    operation |-> operation,
                    dict |-> operation_as_dict(operation)]
    /\ UNCHANGED <<ledgerVars, moneyVars, fileVars, state, heap, prevView,
                   refused, lastErr, calls>>

IoLoad ==
    /\ call.kind = "operation_as_dict"
    /\ call' = [kind |-> "load_operation_from_dict",
                operation |-> call.operation,
                dict |-> call.dict,
                loaded |-> load_operation_from_dict(call.dict)]
    /\ UNCHANGED <<ledgerVars, moneyVars, fileVars, state, heap, prevView,
                   refused, lastErr, calls>>

NextIo == IoDump \/ IoLoad

SpecIo == InitIo /\ [][NextIo]_vars

\* ------------------------------------------------------------ the log file
\* Ledger.save_to_file, Ledger.load_from_file and Ledger.edit, run by two
\* processes on one ledger.yml. The file is the sequence of the dicts that
\* yaml.dump_all writes and yaml.load_all reads back, one document each. A
\* session is one `with Ledger.edit() as ledger:` block: its body applies
\* operations to the ledger, catching an exception or letting it through.

RECURSIVE LimbsValue(_)
LimbsValue(b) == IF b = <<>> THEN 0 ELSE Head(b) + Radix * LimbsValue(Tail(b))

\* the operation with its fields as Python values
Boxed(operation) ==
    [k \in DOMAIN operation |->
        IF k = "kind" THEN operation[k]
        ELSE IF k = "amount" THEN MoneyOfCents(operation[k])
        ELSE Str(operation[k])]

Unboxed(boxed) ==
    [k \in DOMAIN boxed |->
        IF k = "kind" THEN boxed[k]
        ELSE IF boxed[k].type = "Money"
        THEN (IF boxed[k].neg THEN 0 - LimbsValue(boxed[k].mag)
              ELSE LimbsValue(boxed[k].mag))
        ELSE boxed[k].value]

save_to_file(recs) ==
    [i \in DOMAIN recs |-> operation_as_dict(Boxed(recs[i].operation))]

\* the operations read from the file
file_operations(f) ==
    [i \in DOMAIN f |-> Unboxed(load_operation_from_dict(f[i]))]

\* a load that keeps the ledger built before the exception
load_from_file_best_effort(f) ==
    [load_from_operations(file_operations(f)) EXCEPT !.err = NoError]

load_from_file(f) == load_from_operations(file_operations(f))

FileNames == {"a", "b"}

SessionOperations ==
    {AddAccount(n) : n \in FileNames}
    \cup {RemoveAccount(n) : n \in FileNames}
    \cup {Transfer(1, a, b) : a \in FileNames, b \in FileNames}

\* logs found on disk at the start: written by earlier sessions, or by hand
Logs ==
    {<<>>,
     <<AddAccount("a")>>,
     <<AddAccount("a"), AddAccount("b")>>,
     <<AddAccount("a"), Transfer(1, "a", "b")>>,
     <<AddAccount("a"), AddAccount("b"), Transfer(1, "a", "b")>>}

InitFile ==
    /\ \E log \in Logs :
           file = [i \in DOMAIN log |-> operation_as_dict(Boxed(log[i]))]
    /\ sessions = [s \in Sessions |-> IdleSession]
    /\ edits = 0
    /\ saves = <<>>
    /\ InitLedger
    /\ IdleState
    /\ IdleMoney

\* Ledger.edit up to the yield: load_from_file, whose exception leaves the
\* caller without a ledger
SessionLoad(s) ==
    /\ sessions[s].pc = "idle"
    /\ LET l == load_from_file(file)
       IN  sessions' =
               [sessions EXCEPT ![s] =
                   IF l.err = NoError
                   THEN [IdleSession EXCEPT
                            !.pc = "editing",
                            !.records = l.records,
                            !.heap = l.heap,
                            !.log = Ledger_operations(l.records),
                            !.seen = Len(saves)]
                   ELSE [IdleSession EXCEPT
                            !.pc = "failed",
                            !.at = Len(l.records),
                            !.seen = Len(saves)]]
    /\ UNCHANGED <<file, edits, saves, ledgerVars, stateVars, moneyVars, heap,
                   lastErr, calls>>

\* the body applies an operation; an exception is caught by the body
SessionApply(s) ==
    /\ sessions[s].pc = "editing"
    /\ edits < MaxEdits
    /\ \E operation \in SessionOperations :
           LET l == Ledger_apply(sessions[s].records, sessions[s].heap,
                                 operation)
           IN  sessions' =
                   [sessions EXCEPT
                       ![s].records = l.records,
                       ![s].heap = l.heap,
                       ![s].applied = IF l.err = NoError
                                      THEN Append(@, operation) ELSE @]
    /\ edits' = edits + 1
    /\ UNCHANGED <<file, saves, ledgerVars, stateVars, moneyVars, heap,
                   lastErr, calls>>

\* a session whose exception is followed by a save all the same
SessionRaise_saving(s) ==
    /\ sessions[s].pc = "editing"
    /\ edits < MaxEdits
    /\ \E operation \in SessionOperations :
           LET l == Ledger_apply(sessions[s].records, sessions[s].heap,
                                 operation)
           IN  /\ l.err # NoError
               /\ sessions' = [sessions EXCEPT ![s].pc = "aborted",
                                               ![s].heap = l.heap]
    /\ file' = save_to_file(sessions[s].records)
    /\ edits' = edits + 1
    /\ UNCHANGED <<saves, ledgerVars, stateVars, moneyVars, heap,
                   lastErr, calls>>

\* the body applies an operation and lets its exception through: the
\* generator of edit is closed at the yield and save_to_file is not reached
SessionRaise(s) ==
    /\ sessions[s].pc = "editing"
    /\ edits < MaxEdits
    /\ \E operation \in SessionOperations :
           LET l == Ledger_apply(sessions[s].records, sessions[s].heap,
                                 operation)
           IN  /\ l.err # NoError
               /\ sessions' = [sessions EXCEPT ![s].pc = "aborted",
                                               ![s].heap = l.heap]
    /\ edits' = edits + 1
    /\ UNCHANGED <<file, saves, ledgerVars, stateVars, moneyVars, heap,
                   lastErr, calls>>

\* a save that appends the session's operations to what the file holds
SessionSave_merging(s) ==
    /\ sessions[s].pc = "editing"
    /\ file' = file \o [i \in DOMAIN sessions[s].applied |->
                           operation_as_dict(Boxed(sessions[s].applied[i]))]
    /\ sessions' = [sessions EXCEPT ![s].pc = "saved"]
    /\ saves' = Append(saves, s)
    /\ UNCHANGED <<edits, ledgerVars, stateVars, moneyVars, heap,
                   lastErr, calls>>

\* the body ends: Ledger.edit after the yield, save_to_file
SessionSave(s) ==
    /\ sessions[s].pc = "editing"
    /\ file' = save_to_file(sessions[s].records)
    /\ sessions' = [sessions EXCEPT ![s].pc = "saved"]
    /\ saves' = Append(saves, s)
    /\ UNCHANGED <<edits, ledgerVars, stateVars, moneyVars, heap,
                   lastErr, calls>>

NextFile ==
    \E s \in Sessions :
        \/ SessionLoad(s)
        \/ SessionApply(s)
        \/ SessionRaise(s)
        \/ SessionSave(s)

SpecFile == InitFile /\ [][NextFile]_vars

\* ------------------------------------------------------------ command line
\* The commands of lausa/cli.py that write ledger.yml, run one after the
\* other, starting from the file that `init` writes. Each of them but init
\* is one `with Ledger.edit() as ledger:` block: load_from_file, the body,
\* and save_to_file when the body has raised nothing.

\* list.pop(i) on the records: i counts from the end when negative
list_pop(l, i) ==
    LET n == Len(l.records)
        j == IF i < 0 THEN i + n ELSE i
    IN  IF n = 0 THEN [l EXCEPT !.err = "IndexError: pop from empty list"]
        ELSE IF j < 0 \/ j >= n
        THEN [l EXCEPT !.err = "IndexError: pop index out of range"]
        ELSE [l EXCEPT !.records =
                           SubSeq(@, 1, j) \o SubSeq(@, j + 2, n)]

\* with Ledger.edit() as ledger: body -- the file afterwards and the
\* exception raised, if any; done is what the body makes of the ledger that
\* load_from_file(f) returns, and is not looked at when the load raises
edit(f, done) ==
    LET ledger == load_from_file(f)
    IN  IF ledger.err # NoError THEN [file |-> f, err |-> ledger.err]
        ELSE IF done.err # NoError THEN [file |-> f, err |-> done.err]
        ELSE [file |-> save_to_file(done.records), err |-> NoError]

\* Ledger._record
record(ledger, operation) ==
    Ledger_apply(ledger.records, ledger.heap, operation)

CliNames == {"a", "b"}
CliIndexes == (0 - 1)..MaxCommands

InitCli ==
    /\ file = save_to_file(<<>>)
    /\ sessions = [s \in Sessions |-> IdleSession]
    /\ edits = 0
    /\ saves = <<>>
    /\ InitLedger
    /\ IdleState
    /\ IdleMoney

Command(c, after) ==
    /\ calls < MaxCommands
    /\ file' = after.file
    /\ lastErr' = after.err
    /\ call' = c
    /\ calls' = calls + 1
    /\ UNCHANGED <<sessions, edits, saves, ledgerVars, moneyVars, heap,
                   state, prevView, refused>>

CliInit ==
    Command([kind |-> "init"], [file |-> save_to_file(<<>>), err |-> NoError])

CliAddUser ==
    /\ calls < MaxCommands
    /\ \E name \in CliNames :
           Command([kind |-> "add_user", name |-> name],
                   edit(file, record(load_from_file(file), AddAccount(name))))

CliAddPot ==
    Command([kind |-> "add_pot"],
            edit(file, record(load_from_file(file), AddPot)))

CliRecordDebt ==
    /\ calls < MaxCommands
    /\ \E debitor \in CliNames, creditor \in CliNames :
           Command([kind |-> "record_debt", debitor |-> debitor,
                    creditor |-> creditor],
                   edit(file,
                        record(load_from_file(file),
                               Debt(1, creditor, debitor)
                                   @@ [subject |-> "potatoes"])))

CliUndo ==
    /\ calls < MaxCommands
    /\ \/ \E index \in CliIndexes :
              Command([kind |-> "undo", index |-> index],
                      edit(file, list_pop(load_from_file(file), index - 1)))
       \/ Command([kind |-> "undo"],
                  edit(file, list_pop(load_from_file(file), 0 - 1)))

NextCli ==
    \/ CliInit
    \/ CliAddUser
    \/ CliAddPot
    \/ CliRecordDebt
    \/ CliUndo

SpecCli == InitCli /\ [][NextCli]_vars

\* ------------------------------------------------------------ properties

State == Ledger_state(records)
Operations == Ledger_operations(records)
Succeeded == lastErr = NoError /\ lastOp.kind # "None"
Failed == lastErr # NoError

\* C1: after every successful Ledger.apply the diffs of the resulting state
\* sum to exactly zero.
C1_EquilibriumAfterApply ==
    Succeeded => SumDiff(State, heap) = 0

\* a successful apply has left accounts with non-zero diffs
C1_Witness ==
    /\ Succeeded
    /\ \E i \in DOMAIN State : heap[State[i].ref].diff # 0
    /\ \E i \in DOMAIN State : heap[State[i].ref].diff < 0

\* C2: a failed Ledger.apply appends no record and leaves ledger.operations
\* and ledger.state (accounts, balances, diffs) as they were before the call.
C2_RollbackAtomicity ==
    [][lastErr' # NoError =>
          /\ Ledger_operations(records') = Ledger_operations(records)
          /\ Items(Ledger_state(records'), heap')
                 = Items(Ledger_state(records), heap)]_vars

\* the state record i must hold: its operation applied to the state of the
\* record before it (to the empty state for the first record)
ExpectedRecordItems(i) ==
    LET before == IF i = 1 THEN World(<<>>, <<>>)
                  ELSE Detached(records[i - 1].state, heap)
        after == apply_to(records[i].operation, before)
    IN  Items(after.state, after.heap)

\* C3: a record is never mutated once appended: the state stored in every
\* record stays the result of applying its operation to the previous
\* record's state.
C3_RecordsImmutable ==
    \A i \in DOMAIN records :
        Items(records[i].state, heap) = ExpectedRecordItems(i)

\* C4: replaying ledger.operations into a fresh ledger succeeds and gives
\* the same state and the same operations.
C4_ReplayIdempotence ==
    LET l2 == load_from_operations(Operations)
    IN  /\ l2.err = NoError
        /\ View(Ledger_state(l2.records), l2.heap) = View(State, heap)
        /\ Ledger_operations(l2.records) = Operations

Abs(x) == IF x < 0 THEN 0 - x ELSE x

\* q is the quotient m / n rounded to the nearest cent
IsRoundedQuotient(q, m, n) == 2 * Abs(m - q * n) <= n

C6_PotBalanceNonNegative ==
    \A i \in DOMAIN records :
        has_pot(records[i].state) =>
            heap[Ref(records[i].state, "POT")].balance >= 0

\* a withdrawal from the pot has just been refused
C6_Witness ==
    /\ has_pot(State)
    /\ lastOp.kind \in {"Reimburse", "Transfer", "SharedExpense", "PaysContribution"}
    /\ lastErr = "RuntimeError: account balance cannot be negative"

\* C7: at most one account is named POT and it is a PositiveAccount.
C7_SinglePositivePot ==
    \A r \in DOMAIN records :
        LET s == records[r].state
        IN  /\ Cardinality({i \in DOMAIN s : s[i].name = "POT"}) <= 1
            /\ \A i \in DOMAIN s :
                   s[i].name = "POT" => heap[s[i].ref].kind = "PositiveAccount"

\* a pot exists and AddAccount("POT") has just been attempted
C7_Witness ==
    /\ has_pot(State)
    /\ lastOp.kind = "AddAccount"
    /\ lastOp.name = "POT"

PrevHas(name) == \E i \in DOMAIN prevView : prevView[i].name = name
PrevAccount(name) ==
    prevView[CHOOSE i \in DOMAIN prevView : prevView[i].name = name].account
PrevWithout(name) ==
    SelectSeq(prevView, LAMBDA e : e.name # name)

C9_AddPotConflict ==
    call.kind = "add_pot" =>
        IF PrevHas("POT")
        THEN lastErr # NoError /\ Items(state, heap) = prevView
        ELSE lastErr = NoError
             /\ Items(state, heap)
                    = Append(prevView, [name |-> "POT", account |-> PositiveAccount])

\* C10: AddAccount("POT") always fails with the reserved-name error and
\* leaves the ledger unchanged.
C10_PotNameReserved ==
    [][(lastOp'.kind = "AddAccount" /\ lastOp'.name = "POT") =>
          /\ lastErr' = "ValueError: 'POT' is a reserved account name"
          /\ records' = records
          /\ heap' = heap]_vars

\* AddAccount("POT") refused on a ledger that has a pot
C10_Witness ==
    /\ lastOp.kind = "AddAccount"
    /\ lastOp.name = "POT"
    /\ lastErr = "ValueError: 'POT' is a reserved account name"
    /\ has_pot(State)
    /\ Len(records) >= 2

NoPotError(kind) ==
    CASE kind = "RequestContribution" ->
             "RuntimeError: RequestContribution only applies to a ledger with a pot"
      [] kind = "Reimburse" ->
             "RuntimeError: Reimburse only applies to a ledger with a pot"
      [] kind = "PaysContribution" ->
             "RuntimeError: PaysContribution only applies to a ledger with a pot"

PotOperations == {"RequestContribution", "Reimburse", "PaysContribution"}

\* C11: RequestContribution, Reimburse and PaysContribution applied to a
\* ledger without a POT account fail, and the ledger's state and operation
\* list are unchanged.
C11_NoPotConfigured ==
    [][(lastOp'.kind \in PotOperations /\ ~has_pot(State)) =>
          /\ lastErr' = NoPotError(lastOp'.kind)
          /\ records' = records
          /\ heap' = heap]_vars

\* a PaysContribution by an existing account has been refused for want of a pot
C11_Witness ==
    /\ lastOp.kind = "PaysContribution"
    /\ lastErr = NoPotError("PaysContribution")
    /\ Contains(State, lastOp.sender)
    /\ lastOp.amount # 0

\* C12: add_account fails for a non-string name, an empty name and a name
\* already present, leaving the state unchanged; otherwise it appends an
\* account with balance 0 and diff 0 and changes no other account.
C12_AddAccount ==
    call.kind = "add_account" =>
        IF call.name \in NonStringNames
        THEN lastErr = "TypeError: name is not a string"
             /\ Items(state, heap) = prevView
        ELSE IF call.name = ""
        THEN lastErr = "ValueError: name string is empty"
             /\ Items(state, heap) = prevView
        ELSE IF PrevHas(call.name)
        THEN lastErr = "RuntimeError: account already exists"
             /\ Items(state, heap) = prevView
        ELSE lastErr = NoError
             /\ Items(state, heap)
                    = Append(prevView, [name |-> call.name, account |-> Account])

\* adding a name again has been refused, the existing account holding money
C12_Witness ==
    /\ call.kind = "add_account"
    /\ lastErr = "RuntimeError: account already exists"
    /\ PrevAccount(call.name).balance # 0

\* C19: PositiveAccount.change_balance(amount) fails and changes nothing when
\* balance + amount < 0, and otherwise adds amount to balance, diff untouched.
C19_PositiveAccountGuard ==
    (/\ call.kind = "change_balance"
     /\ PrevHas(call.name)
     /\ PrevAccount(call.name).kind = "PositiveAccount") =>
        LET old == PrevAccount(call.name)
        IN  IF old.balance + call.amount < 0
            THEN lastErr = "RuntimeError: account balance cannot be negative"
                 /\ Items(state, heap) = prevView
            ELSE lastErr = NoError
                 /\ Items(state, heap) =
                        [i \in DOMAIN prevView |->
                            IF prevView[i].name = call.name
                            THEN [prevView[i] EXCEPT
                                      !.account.balance = @ + call.amount]
                            ELSE prevView[i]]

\* a withdrawal from a PositiveAccount has been refused
C19_Witness ==
    /\ call.kind = "change_balance"
    /\ lastErr = "RuntimeError: account balance cannot be negative"
    /\ PrevAccount(call.name).kind = "PositiveAccount"
    /\ call.amount < 0

\* C20: ledger.operations is the sequence of the operations whose apply
\* succeeded, in call order: a success appends exactly its operation at the
\* end, a failure appends nothing.
C20_OperationsAppendOnly ==
    [][IF lastErr' = NoError
       THEN Ledger_operations(records') = Append(Operations, lastOp')
       ELSE Ledger_operations(records') = Operations]_vars

\* two operations recorded around a refused one
C20_Witness ==
    /\ Len(records) = 2
    /\ calls = 3
    /\ Succeeded

Is(b) == IF b THEN 1 ELSE 0

\* the accounts before the call, account named n at position i having
\* received db(i, n) on its balance and dd(i, n) on its diff
Shifted(db(_, _), dd(_, _)) ==
    [i \in DOMAIN prevView |->
        [name |-> prevView[i].name,
         account |-> [prevView[i].account EXCEPT
                         !.balance = @ + db(i, prevView[i].name),
                         !.diff = @ + dd(i, prevView[i].name)]]]

\* the accounts before the call after amount went from sender to receiver
Transferred(amount, sender, receiver) ==
    Shifted(LAMBDA i, n : amount * (Is(n = receiver) - Is(n = sender)),
            LAMBDA i, n : amount * (Is(n = sender) - Is(n = receiver)))

PrevNames == [i \in DOMAIN prevView |-> prevView[i].name]

\* C13: a successful SharedExpense takes amount from the payer's balance and
\* adds it to the payer's diff; with a pot it then takes amount from POT's
\* diff only; without a pot it takes from the diff of every account, payer
\* included, its share of amount split over all the accounts, the first
\* account in insertion order taking the share with the remainder.
C13_SharedExpense ==
    (call.kind = "SharedExpense" /\ lastErr = NoError) =>
        LET shares == divide_with_no_rest(call.amount, Len(prevView))
        IN  Items(state, heap) =
                Shifted(LAMBDA i, n : 0 - call.amount * Is(n = call.payer),
                        LAMBDA i, n :
                            call.amount * Is(n = call.payer)
                            - (IF PrevHas("POT")
                               THEN call.amount * Is(n = "POT")
                               ELSE shares[i]))

\* the share of account n when the portions are dealt to group in list order
Share(group, portions, n) ==
    IF \E i \in DOMAIN group : group[i] = n
    THEN portions[CHOOSE i \in DOMAIN group : group[i] = n]
    ELSE 0

\* C14: a successful create_debt adds to each creditor's diff its share of
\* amount split into len(creditors) parts and takes from each debitor's diff
\* its share of amount split into len(debitors) parts, in list order, the
\* first taking the remainder; a None group is every account except POT in
\* insertion order; an account of both groups gets both; no balance changes.
C14_CreateDebt ==
    (call.kind = "create_debt" /\ lastErr = NoError) =>
        LET everyone == SelectSeq(PrevNames, LAMBDA n : n # "POT")
            cs == IF call.creditors = None THEN everyone ELSE call.creditors
            ds == IF call.debitors = None THEN everyone ELSE call.debitors
            plus == divide_with_no_rest(call.amount, Len(cs))
            minus == divide_with_no_rest(call.amount, Len(ds))
        IN  Items(state, heap) =
                Shifted(LAMBDA i, n : 0,
                        LAMBDA i, n : Share(cs, plus, n) - Share(ds, minus, n))

\* C15: RequestContribution(amount) on a state with a pot and k >= 1 other
\* accounts succeeds, takes exactly amount from the diff of each account
\* other than POT, adds exactly k * amount to POT's diff and changes no
\* balance.
C15_RequestContribution ==
    (/\ call.kind = "RequestContribution"
     /\ PrevHas("POT")
     /\ Len(prevView) >= 2) =>
        /\ lastErr = NoError
        /\ Items(state, heap) =
               Shifted(LAMBDA i, n : 0,
                       LAMBDA i, n : IF n = "POT"
                                     THEN (Len(prevView) - 1) * call.amount
                                     ELSE 0 - call.amount)

\* C16: Transfer between two existing accounts, when it succeeds, takes
\* amount from the sender's balance and adds it to the receiver's, adds
\* amount to the sender's diff and takes it from the receiver's, and leaves
\* every other account as it was; between two plain accounts it succeeds.
C16_Transfer ==
    (/\ call.kind = "Transfer"
     /\ PrevHas(call.sender)
     /\ PrevHas(call.receiver)) =>
        /\ lastErr = NoError =>
               Items(state, heap)
                   = Transferred(call.amount, call.sender, call.receiver)
        /\ "POT" \notin {call.sender, call.receiver} => lastErr = NoError

\* money has moved between two different accounts, a third one looking on
C16_Witness ==
    /\ call.kind = "Transfer"
    /\ lastErr = NoError
    /\ call.sender # call.receiver
    /\ call.amount # 0
    /\ Len(state) = 3

\* C17: with a pot, a successful Reimburse is the internal transfer from POT
\* to the receiver and a successful PaysContribution the internal transfer
\* from the sender to POT; Reimburse succeeds only when POT's balance is at
\* least amount, does succeed then when the receiver exists, and when it is
\* refused for want of money no account has changed.
C17_PotTransfers ==
    /\ (call.kind = "Reimburse" /\ PrevHas("POT")) =>
           /\ lastErr = NoError =>
                  /\ Items(state, heap)
                         = Transferred(call.amount, "POT", call.receiver)
                  /\ PrevAccount("POT").balance >= call.amount
           /\ (PrevHas(call.receiver)
                 /\ PrevAccount("POT").balance >= call.amount) =>
                  lastErr = NoError
           /\ lastErr = "RuntimeError: account balance cannot be negative" =>
                  Items(state, heap) = prevView
    /\ (call.kind = "PaysContribution" /\ PrevHas("POT")) =>
           (lastErr = NoError =>
                Items(state, heap)
                    = Transferred(call.amount, call.sender, "POT"))

\* a Reimburse to an account that holds money has been refused, the pot
\* being empty
C17_Witness ==
    /\ call.kind = "Reimburse"
    /\ lastErr = "RuntimeError: account balance cannot be negative"
    /\ PrevHas(call.receiver)
    /\ call.receiver # "POT"
    /\ PrevAccount(call.receiver).balance # 0
    /\ PrevAccount("POT").balance = 0

\* C18: Debt between two existing accounts succeeds, adds amount to the
\* creditor's diff and takes it from the debitor's; TransferDebt between two
\* existing accounts succeeds, adds amount to old_debitor's diff and takes it
\* from new_debitor's; no balance and no other diff changes.
C18_DebtMovements ==
    /\ (call.kind = "Debt" /\ PrevHas(call.creditor) /\ PrevHas(call.debitor)) =>
           /\ lastErr = NoError
           /\ Items(state, heap) =
                  Shifted(LAMBDA i, n : 0,
                          LAMBDA i, n : call.amount * (Is(n = call.creditor)
                                                       - Is(n = call.debitor)))
    /\ (/\ call.kind = "TransferDebt"
        /\ PrevHas(call.old_debitor)
        /\ PrevHas(call.new_debitor)) =>
           /\ lastErr = NoError
           /\ Items(state, heap) =
                  Shifted(LAMBDA i, n : 0,
                          LAMBDA i, n : call.amount * (Is(n = call.old_debitor)
                                                       - Is(n = call.new_debitor)))

\* a debt has been transferred between two different accounts, a third one
\* looking on
C18_Witness ==
    /\ call.kind = "TransferDebt"
    /\ lastErr = NoError
    /\ call.old_debitor # call.new_debitor
    /\ call.amount # 0
    /\ Len(state) = 3

\* C27: a create_debt that fails on a split into zero parts (an empty group)
\* has changed no balance and no diff of the state.
C27_ValidationBeforeMutation ==
    (/\ call.kind = "create_debt"
     /\ lastErr \in {"decimal.DivisionByZero", "decimal.InvalidOperation"}) =>
        Items(state, heap) = prevView

\* the accounts before the call, the one named name changed by db and dd
OneShifted(name, db, dd) ==
    Shifted(LAMBDA i, n : db * Is(n = name), LAMBDA i, n : dd * Is(n = name))

\* C28: change_balance and change_diff fail on a name that is not an account
\* of the state and change nothing; on an existing name a successful
\* change_balance adds amount to that account's balance only, and change_diff
\* succeeds and adds amount to that account's diff only.
C28_ChangeOneField ==
    /\ call.kind = "change_balance" =>
           IF ~PrevHas(call.name)
           THEN lastErr = "RuntimeError: account does not exists"
                /\ Items(state, heap) = prevView
           ELSE IF lastErr = NoError
           THEN Items(state, heap) = OneShifted(call.name, call.amount, 0)
           ELSE PrevAccount(call.name).kind = "PositiveAccount"
    /\ call.kind = "change_diff" =>
           IF ~PrevHas(call.name)
           THEN lastErr = "RuntimeError: account does not exists"
                /\ Items(state, heap) = prevView
           ELSE lastErr = NoError
                /\ Items(state, heap) = OneShifted(call.name, 0, call.amount)

\* the diff of an account that holds money has been changed, another account
\* standing by
C28_Witness ==
    /\ call.kind = "change_diff"
    /\ lastErr = NoError
    /\ call.amount # 0
    /\ PrevAccount(call.name).balance # 0
    /\ Len(state) >= 2

\* C29: remove_account of an account whose balance is not zero fails and
\* leaves the state as it was.
C29_RemoveNonNullBalance ==
    (/\ call.kind = "remove_account"
     /\ PrevHas(call.name)
     /\ PrevAccount(call.name).balance # 0) =>
        /\ lastErr # NoError
        /\ Items(state, heap) = prevView

SumDiffOf(view) == SumSeq([i \in DOMAIN view |-> view[i].account.diff])

DiffIn(view, name) ==
    view[CHOOSE i \in DOMAIN view : view[i].name = name].account.diff

\* what the call added to the diffs of the accounts of group, taken together
GroupChange(group) ==
    SumSeq([i \in DOMAIN group |->
               DiffIn(Items(state, heap), group[i]) - DiffIn(prevView, group[i])])

\* C30: whenever create_debt completes, the sum of all diffs is what it was
\* before the call; with two explicit groups that share no account the
\* creditors have together received amount and the debitors have together
\* given amount.
C30_DebtNeutral ==
    (call.kind = "create_debt" /\ lastErr = NoError) =>
        /\ SumDiffOf(Items(state, heap)) = SumDiffOf(prevView)
        /\ (/\ call.creditors # None
            /\ call.debitors # None
            /\ \A i \in DOMAIN call.creditors, j \in DOMAIN call.debitors :
                   call.creditors[i] # call.debitors[j]) =>
               /\ GroupChange(call.creditors) = call.amount
               /\ GroupChange(call.debitors) = 0 - call.amount

\* a debt credited to all accounts and debited to two of them has been
\* created
C30_Witness ==
    /\ call.kind = "create_debt"
    /\ lastErr = NoError
    /\ call.amount # 0
    /\ call.creditors = None
    /\ call.debitors # None
    /\ Len(call.debitors) = 2

\* the session that takes the step from pc `from` to pc `to`
Steps(s, from, to) == sessions[s].pc = from /\ sessions'[s].pc = to

\* C21: load_from_file either returns a ledger whose operations are the
\* whole persisted sequence in order, or fails at the first operation that
\* cannot be applied and returns no ledger; never a ledger with a prefix.
C21_ReplayAllOrNothing ==
    [][\A s \in Sessions :
          sessions[s].pc = "idle" /\ sessions'[s].pc # "idle" =>
              LET persisted == file_operations(file)
                  after == sessions'[s]
              IN  \/ /\ after.pc = "editing"
                     /\ Ledger_operations(after.records) = persisted
                  \/ /\ after.pc = "failed"
                     /\ after.records = <<>>
                     /\ after.at < Len(persisted)
                     /\ load_from_operations(
                            SubSeq(persisted, 1, after.at)).err = NoError
                     /\ load_from_operations(
                            SubSeq(persisted, 1, after.at + 1)).err # NoError]_vars

\* a load has failed on a log whose first operation could be applied
C21_Witness == \E s \in Sessions : sessions[s].pc = "failed" /\ sessions[s].at >= 1

\* C22: when the body of an edit session raises, the file is not rewritten:
\* it holds what it held, and reloading gives the same ledger as before.
C22_AbortKeepsFile ==
    [][\A s \in Sessions :
          Steps(s, "editing", "aborted") =>
              /\ file' = file
              /\ load_from_file(file') = load_from_file(file)]_vars

\* a session has been aborted after one of its operations had been applied,
\* and the file still holds the log that session loaded
C22_Witness ==
    \E s \in Sessions :
        /\ sessions[s].pc = "aborted"
        /\ sessions[s].applied # <<>>
        /\ file_operations(file) = sessions[s].log

\* C23: after an edit session whose body completes without error, the file
\* holds the log loaded at the start followed by the operations applied in
\* the session, in order, and reloading it gives the session's final state.
C23_SaveAfterSession ==
    [][\A s \in Sessions :
          Steps(s, "editing", "saved") =>
              LET l == load_from_file(file')
              IN  /\ file_operations(file')
                         = sessions[s].log \o sessions[s].applied
                  /\ l.err = NoError
                  /\ View(Ledger_state(l.records), l.heap)
                         = View(Ledger_state(sessions[s].records),
                                sessions[s].heap)]_vars

\* C24: at most one edit session has loaded the file and not yet saved.
C24_OnePendingEdit ==
    Cardinality({s \in Sessions : sessions[s].pc = "editing"}) <= 1

\* C25: when two sessions both load the file before either saves, the file
\* after both saves holds exactly the log of the session that saved last.
C25_LastWriteWins ==
    (/\ Len(saves) = 2
     /\ \A s \in Sessions : sessions[s].seen = 0) =>
        /\ file_operations(file)
               = sessions[saves[2]].log \o sessions[saves[2]].applied
        /\ \A s \in Sessions : sessions[s].pc = "saved"

\* both sessions loaded first and saved without error, and the operation
\* recorded by the one that saved first is not in the file
C25_Witness ==
    /\ Len(saves) = 2
    /\ \A s \in Sessions : sessions[s].seen = 0 /\ sessions[s].pc = "saved"
    /\ sessions[saves[1]].applied # <<>>
    /\ \A i \in DOMAIN file :
           file_operations(file)[i] # sessions[saves[1]].applied[1]

\* C26: for every operation variant and every field value,
\* load_operation_from_dict(operation_as_dict(op)) == op; the dict carries
\* the variant name under the key operation plus the constructor fields.
C26_IoRoundTrip ==
    /\ call.kind \in {"operation_as_dict", "load_operation_from_dict"} =>
           /\ DOMAIN call.dict
                  = {"operation"} \cup (DOMAIN call.operation \ {"kind"})
           /\ call.dict["operation"] = Str(call.operation.kind)
    /\ call.kind = "load_operation_from_dict" =>
           Operation_eq(call.loaded, call.operation)

\* ------------------------------------------------------------ split shape

\* C31: any two of the parts returned by divide_with_no_rest(n) differ by at
\* most one cent.
C31_EqualParts ==
    parts # <<>> =>
        \A i, j \in 1..Len(parts) : Abs(parts[i] - parts[j]) <= 1

\* C35: every part of a split of an amount >= 0 is >= 0.
C35_PartsNonNegative ==
    (parts # <<>> /\ money >= 0) =>
        \A i \in 1..Len(parts) : parts[i] >= 0

\* ------------------------------------------------------------ equilibrium kept

\* C32: in every state reached through successful and failed Ledger.apply
\* calls, the diffs of ledger.state sum to zero.
C32_EquilibriumAlways == SumDiff(State, heap) = 0

\* ------------------------------------------------------------ money kept

NowView == Items(state, heap)

TotalBalance(view) == SumSeq([i \in DOMAIN view |-> view[i].account.balance])

\* every account is still there and is worth (balance + diff) what it was
KeepsWorth ==
    /\ Len(NowView) = Len(prevView)
    /\ \A i \in DOMAIN prevView :
           /\ NowView[i].name = prevView[i].name
           /\ NowView[i].account.balance + NowView[i].account.diff
                  = prevView[i].account.balance + prevView[i].account.diff

\* every account that was there is still there with the balance it had
KeepsBalances ==
    /\ Len(NowView) >= Len(prevView)
    /\ \A i \in DOMAIN prevView :
           /\ NowView[i].name = prevView[i].name
           /\ NowView[i].account.balance = prevView[i].account.balance

C34_PotStays ==
    (\E i \in DOMAIN records : records[i].operation.kind = "AddPot") =>
        has_pot(State)

\* ------------------------------------------------------------ undo

\* C36: every log that the commands have written, undo included, can be
\* replayed: load_from_file succeeds on it.
C36_UndoKeepsReplayable == load_from_file(file).err = NoError

====
